---- MODULE Spec2Model ----
(***************************************************************************)
(* Model of streamlit_app.py ("Algorithm Learning Hub").                   *)
(*                                                                         *)
(* The script is re-executed from the top on every widget interaction.     *)
(* Three pages carry logic: the Theta page (bound envelope), the Time      *)
(* Complexity page (toy simulations) and the Complexity Calculator (the    *)
(* estimator).  The other pages only draw fixed charts and are modelled    *)
(* by the page variable alone.                                             *)
(*                                                                         *)
(* Numbers: slider constants c1, c2 are kept in tenths (step 0.1); sample  *)
(* points of a plotted domain are rationals <<num, den>>; series values    *)
(* are exact, scaled by 10*den^2, as two-limb numbers <<hi, lo>> in base   *)
(* 10000 so that no intermediate product leaves 32 bits.  A series of the  *)
(* figure is a function of the constants and of the array n it was drawn   *)
(* from, which cannot change without the page being drawn again: the state *)
(* keeps that array and the figure's trace names; the series are read off. *)
(*                                                                         *)
(* Spec is the application as its widgets drive it.  ContractSpec applies  *)
(* the same blocks to the argument values of the documented call shapes    *)
(* simulate(algorithmId, inputSize) and composeBounds(c1, c2, domain),     *)
(* which reach beyond what the widgets supply (sizes below 100, a domain   *)
(* other than linspace(1, 50, 200)).                                       *)
(***************************************************************************)
EXTENDS Integers, Sequences, FiniteSets, TLC

VARIABLES
    page,                 \* selected_page
    c1, c2,               \* Theta sliders, in tenths
    nArr,                 \* Theta page: the array n (<<>> while not computed)
    traces,               \* Theta figure: names of the traces added to it
    msg,                  \* Theta status line: "none", "success", "error"
    selected_algorithms,  \* multiselect value, in selection order
    size,                 \* "Input Size (n)"
    pc,                   \* position of the script inside the simulation
    idx,                  \* position of the for-loop over selected_algorithms
    alg,                  \* loop variable alg
    total,                \* accumulator
    val,                  \* Binary branch: val
    i, j,                 \* Bubble branch: loop variables
    k,                    \* Linear / Merge branch: iterations done of range()
    limit,                \* Linear / Merge branch: length of the range()
    runtimes,             \* dict runtimes: algorithm -> elapsed
    messages,             \* st.success lines of the report loop
    exception,            \* uncaught exception ending the script run
    expr,                 \* Calculator text area
    result                \* Calculator st.success text ("" = not shown)

vars == <<page, c1, c2, nArr, traces, msg, selected_algorithms, size, pc, idx, alg,
          total, val, i, j, k, limit, runtimes, messages, exception, expr, result>>

thetaVars == <<c1, c2, nArr, traces, msg>>
timeVars  == <<selected_algorithms, size, pc, idx, alg, total, val, i, j, k,
               limit, runtimes, messages, exception>>
calcVars  == <<expr, result>>

-----------------------------------------------------------------------------
(* Bounds of the exploration *)

\* slider sizes explored: SliderMin .. SliderMin + SizeSpan
SizeSpan == 0
\* longest multiselect value explored from the slider's sizes
MaxSel == 2
\* sizes 1..MaxN explored for the simulation block taken as simulate(alg, n)
MaxN == 6

-----------------------------------------------------------------------------
(* Program constants *)

SliderMin   == 100
SliderMax   == 5000
DefaultSize == 1000
C1Min       == 1
C1Max       == 20
C1Default   == 5
C2Min       == 10
C2Max       == 50
C2Default   == 20
LinStart    == 1
LinStop     == 50
NumSamples  == 200

Pages == {"Introduction", "Theta", "Time", "Calculator"}
Algs  == {"Linear", "Binary", "Bubble", "Merge"}
DefaultSelection == <<"Linear">>

-----------------------------------------------------------------------------
(* Arithmetic helpers *)

RECURSIVE Pow2(_)
Pow2(e) == IF e = 0 THEN 1 ELSE 2 * Pow2(e - 1)

Range(s) == {s[x] : x \in DOMAIN s}

\* floor(log2(n)) for n >= 1
RECURSIVE FloorLog2(_)
FloorLog2(n) == IF n > 1 THEN 1 + FloorLog2(n \div 2) ELSE 0

\* fixed-point units: 15 binary places for the logarithm, 28 for the mantissa
LogOne  == Pow2(15)
MantOne == Pow2(28)

\* (x * x) / 2^28 for a mantissa x in [2^28, 2^29), in 32-bit pieces
SquareMant(x) ==
    LET a == x \div 32768
        b == x % 32768
    IN  4 * a * a + ((2 * a * b + (b * b) \div 32768) \div 8192)

\* the next n binary digits of log2 of the mantissa x, appended to acc
RECURSIVE Log2Digits(_, _, _)
Log2Digits(x, acc, n) ==
    IF n = 0 THEN acc
    ELSE LET s == SquareMant(x)
         IN  IF s >= 2 * MantOne
             THEN Log2Digits(s \div 2, 2 * acc + 1, n - 1)
             ELSE Log2Digits(s, 2 * acc, n - 1)

\* math.log2(n) for an integer n in 1..SliderMax, truncated to 15 binary
\* places and scaled by LogOne
Log2Fix(n) ==
    LET e == FloorLog2(n)
    IN  e * LogOne + Log2Digits(n * Pow2(28 - e), 0, 15)

\* the positive sizes the specifications draw
DrawnSizes ==
    (1..MaxN) \cup {m \in SliderMin..SliderMax : m <= SliderMin + SizeSpan}
        \cup {DefaultSize, 500, 1024}

\* Log2Fix, computed once for each drawn size
Log2Table == [m \in DrawnSizes |-> Log2Fix(m)]

\* int(n * math.log2(n)): truncation toward zero of a non-negative float
MergeRange(n) == (n * Log2Table[n]) \div LogOne

\* n * log2(n) rounded to the nearest integer
RoundNLog2(n) == (n * Log2Table[n] + LogOne \div 2) \div LogOne

\* the 15 places of Log2Fix decide the truncation and the rounding above (the
\* true logarithm lies in [Log2Fix, Log2Fix + 1) / LogOne)
Log2Resolves(n) ==
    n >= 1 =>
        /\ MergeRange(n) = (n * (Log2Table[n] + 1) - 1) \div LogOne
        /\ RoundNLog2(n) = (n * (Log2Table[n] + 1) - 1 + LogOne \div 2) \div LogOne

-----------------------------------------------------------------------------
(* Two-limb exact numbers for the Theta series *)

\* c * x for 0 <= c <= 50 and 0 <= x < 2^27, as <<hi, lo>> in base 10000
Scale(c, x) ==
    LET hi == x \div 10000
        lo == x % 10000
    IN  <<c * hi + ((c * lo) \div 10000), (c * lo) % 10000>>

Leq(a, b) == a[1] < b[1] \/ (a[1] = b[1] /\ a[2] <= b[2])

\* np.linspace(a, b, m): m evenly spaced points from a to b inclusive
Linspace(a, b, m) ==
    [x \in 1..m |-> <<a * (m - 1) + (x - 1) * (b - a), m - 1>>]

PlotDomain == Linspace(LinStart, LinStop, NumSamples)

\* the contract's test domain [10, 20, ..., 100]
TensDomain == [x \in 1..10 |-> <<10 * x, 1>>]

BoundLinear(c, p) == Scale(c, p[1] * p[2])
\* c * n**2 at the point p, scaled by 10 * den^2 (c in tenths)
Bound(c, p) == Scale(c, p[1] * p[1])

\* f = n**2 + 2*n + 1 at the point p, scaled by 10 * den^2
Target(p) == Scale(10, p[1] * p[1] + 2 * p[1] * p[2] + p[2] * p[2])

NoTraces  == {}
AllTraces == {"Lower Bound", "Upper Bound", "f(n)"}

\* y of the traces "Lower Bound", "Upper Bound" and "f(n)" at sample m
LowerAt(m)  == Bound(c1, nArr[m])
UpperAt(m)  == Bound(c2, nArr[m])
TargetAt(m) == Target(nArr[m])

OrderedOrEqual(lo, hi) == lo <= hi
\* if c1 < c2:
Ordered(lo, hi) == lo < hi

\* the Theta page drawn for the constants lo, hi over the domain dom
ThetaDraw(lo, hi, dom) ==
    IF Ordered(lo, hi)
    THEN /\ nArr' = dom
         /\ traces' = AllTraces
         /\ msg' = "success"
    ELSE /\ nArr' = <<>>
         /\ traces' = NoTraces
         /\ msg' = "error"

-----------------------------------------------------------------------------
(* Inputs of the Time Complexity page *)

\* values of the multiselect: distinct algorithms in selection order
Selections(m) ==
    {s \in UNION {[1..l -> Algs] : l \in 0..m} :
        \A x, y \in DOMAIN s : x # y => s[x] # s[y]}

SliderSizes ==
    {n \in SliderMin..SliderMax : n <= SliderMin + SizeSpan /\ Log2Resolves(n)}

\* what the multiselect and the slider can hand to the simulation: every
\* selection at the smallest sizes, and the default size with each single
\* algorithm but Bubble (a million iterations there)
ProgramInputs ==
    {<<s, n>> : s \in Selections(MaxSel), n \in SliderSizes}
        \cup {<<<<a>>, DefaultSize>> : a \in Algs \ {"Bubble"}}

\* argument values of the contract's simulate(algorithmId, inputSize): small
\* sizes and the non-positive sizes in every batch, the sizes of the
\* contract's own examples, and what the widgets can hand over
ContractSizes == {n \in (1..MaxN) \cup {0, -5} : Log2Resolves(n)}
ContractExamples ==
    {<<<<"Binary">>, 1024>>, <<<<"Linear">>, 1000>>, <<<<"Merge">>, 1000>>,
     <<<<"Bubble">>, 500>>}
ContractInputs ==
    {<<s, n>> : s \in Selections(Cardinality(Algs)), n \in ContractSizes}
        \cup ContractExamples \cup ProgramInputs

\* time.perf_counter() - start: a short and a long reading
Elapsed == {1, 2}

-----------------------------------------------------------------------------
(* Code blocks of the Complexity Calculator *)

Line(d, kd) == [indent |-> d, kind |-> kd]

EmptyBlock  == <<>>
SingleLoop  == <<Line(0, "for"), Line(1, "pass")>>
NestedLoop  == <<Line(0, "for"), Line(1, "for"), Line(2, "pass")>>
TwoLoops    == <<Line(0, "for"), Line(1, "pass"), Line(0, "for"), Line(1, "pass")>>
Blocks      == {EmptyBlock, SingleLoop, NestedLoop, TwoLoops}

\* the text area's default value
DefaultExpr == NestedLoop

-----------------------------------------------------------------------------
(* Initial state: the script's first run, on the first page *)

ThetaIdle ==
    /\ c1 = C1Default /\ c2 = C2Default
    /\ nArr = <<>> /\ traces = NoTraces /\ msg = "none"

\* a script run of the Time page that does not enter the simulation
TimeFresh(sel, n) ==
    /\ selected_algorithms' = sel
    /\ size' = n
    /\ pc' = "idle"
    /\ idx' = 0 /\ alg' = "" /\ total' = 0 /\ val' = 0
    /\ i' = 0 /\ j' = 0 /\ k' = 0 /\ limit' = 0
    /\ runtimes' = <<>>
    /\ messages' = <<>>
    /\ exception' = ""

Init ==
    /\ page = "Introduction"
    /\ ThetaIdle
    /\ selected_algorithms = DefaultSelection
    /\ size = DefaultSize
    /\ pc = "idle"
    /\ idx = 0 /\ alg = "" /\ total = 0 /\ val = 0
    /\ i = 0 /\ j = 0 /\ k = 0 /\ limit = 0
    /\ runtimes = <<>>
    /\ messages = <<>>
    /\ exception = ""
    /\ expr = DefaultExpr
    /\ result = ""

-----------------------------------------------------------------------------
(* Navigation *)

\* the sidebar radio: the script reruns on page p with that page's widgets at
\* their defaults.  A rerun request is served at the script's next Streamlit
\* call, and the simulation loop makes none, so no rerun cuts a simulation.
SelectPage ==
    /\ pc \in {"idle", "done", "error"}
    /\ \E p \in Pages :
        /\ page' = p
        /\ c1' = C1Default /\ c2' = C2Default
        /\ IF p = "Theta"
           THEN ThetaDraw(C1Default, C2Default, PlotDomain)
           ELSE nArr' = <<>> /\ traces' = NoTraces /\ msg' = "none"
        /\ TimeFresh(DefaultSelection, DefaultSize)
        /\ expr' = DefaultExpr /\ result' = ""

-----------------------------------------------------------------------------
(* Theta page *)

\* the c1 slider moves: the script reruns and draws the page
SetC1 ==
    /\ page = "Theta"
    /\ \E v \in C1Min..C1Max :
        /\ c1' = v
        /\ ThetaDraw(v, c2, PlotDomain)
    /\ UNCHANGED <<page, c2, timeVars, calcVars>>

\* the c2 slider moves
SetC2 ==
    /\ page = "Theta"
    /\ \E v \in C2Min..C2Max :
        /\ c2' = v
        /\ ThetaDraw(c1, v, PlotDomain)
    /\ UNCHANGED <<page, c1, timeVars, calcVars>>

\* the same composition over the contract's test domain
ComposeTens ==
    /\ page = "Theta"
    /\ ThetaDraw(c1, c2, TensDomain)
    /\ UNCHANGED <<page, c1, c2, timeVars, calcVars>>

-----------------------------------------------------------------------------
(* Time Complexity page *)

\* the multiselect and the slider are set; the script reruns with the button
\* not pressed
SetInputs(D) ==
    /\ page = "Time"
    /\ pc \in {"idle", "done", "error"}
    /\ \E inp \in D : TimeFresh(inp[1], inp[2])
    /\ UNCHANGED <<page, thetaVars, calcVars>>

SetProgramInputs  == SetInputs(ProgramInputs)
SetContractInputs == SetInputs(ContractInputs)

\* "Run Simulation" is pressed: the script reruns, runtimes = {} and the loop
\* over selected_algorithms is entered
ClickRun ==
    /\ page = "Time"
    /\ pc \in {"idle", "done", "error"}
    /\ pc' = "for_alg"
    /\ idx' = 1
    /\ alg' = "" /\ total' = 0 /\ val' = 0
    /\ i' = 0 /\ j' = 0 /\ k' = 0 /\ limit' = 0
    /\ runtimes' = <<>>
    /\ messages' = <<>>
    /\ exception' = ""
    /\ UNCHANGED <<page, thetaVars, calcVars, selected_algorithms, size>>

KeepTotal(t) == t
\* total = 0
ResetTotal(t) == 0

\* len(range(n))
RangeLen(n) == IF n > 0 THEN n ELSE 0

\* head of "for alg in selected_algorithms" and the branch on alg, up to the
\* first test of the branch's loop
StartAlg ==
    /\ pc = "for_alg"
    /\ IF idx > Len(selected_algorithms)
       THEN /\ pc' = "report"
            /\ UNCHANGED <<alg, total, val, i, j, k, limit, exception>>
       ELSE LET a == selected_algorithms[idx] IN
            /\ alg' = a
            /\ total' = ResetTotal(total)
            /\ CASE a = "Linear" ->
                      /\ limit' = RangeLen(size) /\ k' = 0 /\ pc' = "linear"
                      /\ UNCHANGED <<val, i, j, exception>>
                 [] a = "Binary" ->
                      /\ val' = size /\ pc' = "binary"
                      /\ UNCHANGED <<i, j, k, limit, exception>>
                 [] a = "Bubble" ->
                      /\ i' = 0 /\ j' = 0 /\ pc' = "bubble"
                      /\ UNCHANGED <<val, k, limit, exception>>
                 [] a = "Merge" ->
                      IF size <= 0
                      THEN \* math.log2 raises ValueError: math domain error
                           /\ exception' = "ValueError" /\ pc' = "error"
                           /\ UNCHANGED <<val, i, j, k, limit>>
                      ELSE /\ limit' = RangeLen(MergeRange(size)) /\ k' = 0
                           /\ pc' = "merge"
                           /\ UNCHANGED <<val, i, j, exception>>
    /\ UNCHANGED <<page, thetaVars, calcVars, selected_algorithms, size, idx,
                   runtimes, messages>>

\* for _ in range(size): total += 1
LinearStep ==
    /\ pc = "linear"
    /\ IF k < limit
       THEN /\ total' = total + 1 /\ k' = k + 1 /\ pc' = pc
       ELSE /\ pc' = "record" /\ UNCHANGED <<total, k>>
    /\ UNCHANGED <<page, thetaVars, calcVars, selected_algorithms, size, idx, alg,
                   val, i, j, limit, runtimes, messages, exception>>

HalveMissing(v) == v
\* val //= 2
Halve(v) == v \div 2

WhileValPositive(v) == v > 0
\* while val > 1
WhileVal(v) == v > 1

BinaryStep ==
    /\ pc = "binary"
    /\ IF WhileVal(val)
       THEN /\ val' = Halve(val) /\ total' = total + 1 /\ pc' = pc
       ELSE /\ pc' = "record" /\ UNCHANGED <<total, val>>
    /\ UNCHANGED <<page, thetaVars, calcVars, selected_algorithms, size, idx, alg,
                   i, j, k, limit, runtimes, messages, exception>>

\* for i in range(size): for j in range(size): total += i + j
BubbleStep ==
    /\ pc = "bubble"
    /\ IF i < size
       THEN IF j < size
            THEN /\ total' = total + i + j /\ j' = j + 1
                 /\ UNCHANGED <<i, pc>>
            ELSE /\ i' = i + 1 /\ j' = 0
                 /\ UNCHANGED <<total, pc>>
       ELSE /\ pc' = "record" /\ UNCHANGED <<total, i, j>>
    /\ UNCHANGED <<page, thetaVars, calcVars, selected_algorithms, size, idx, alg,
                   val, k, limit, runtimes, messages, exception>>

\* for _ in range(int(size * math.log2(size))): total += 1
MergeStep ==
    /\ pc = "merge"
    /\ IF k < limit
       THEN /\ total' = total + 1 /\ k' = k + 1 /\ pc' = pc
       ELSE /\ pc' = "record" /\ UNCHANGED <<total, k>>
    /\ UNCHANGED <<page, thetaVars, calcVars, selected_algorithms, size, idx, alg,
                   val, i, j, limit, runtimes, messages, exception>>

\* runtimes[alg] = elapsed, and on to the next algorithm
Record ==
    /\ pc = "record"
    /\ \E e \in Elapsed :
        runtimes' = [a \in DOMAIN runtimes \cup {alg} |->
                        IF a = alg THEN e ELSE runtimes[a]]
    /\ idx' = idx + 1
    /\ pc' = "for_alg"
    /\ UNCHANGED <<page, thetaVars, calcVars, selected_algorithms, size, alg,
                   total, val, i, j, k, limit, messages, exception>>

\* for alg in selected_algorithms: st.success(...)
Report ==
    /\ pc = "report"
    /\ messages' = [m \in DOMAIN selected_algorithms |->
                       <<selected_algorithms[m], runtimes[selected_algorithms[m]]>>]
    /\ pc' = "done"
    /\ UNCHANGED <<page, thetaVars, calcVars, selected_algorithms, size, idx, alg,
                   total, val, i, j, k, limit, runtimes, exception>>

-----------------------------------------------------------------------------
(* Complexity Calculator page *)

\* the text area is edited: the script reruns with the button not pressed
EditExpr ==
    /\ page = "Calculator"
    /\ \E b \in Blocks : expr' = b
    /\ result' = ""
    /\ UNCHANGED <<page, thetaVars, timeVars>>

\* "Estimate Complexity" is pressed
Estimate ==
    /\ page = "Calculator"
    /\ result' = "O(n^2)"
    /\ UNCHANGED <<page, thetaVars, timeVars, expr>>

-----------------------------------------------------------------------------
(* Specifications *)

\* the steps of a script run inside the simulation
Step ==
    StartAlg \/ LinearStep \/ BinaryStep \/ BubbleStep \/ MergeStep \/ Record \/ Report

\* the application as the user drives it
Next ==
    \/ SelectPage
    \/ SetC1
    \/ SetC2
    \/ SetProgramInputs
    \/ ClickRun
    \/ StartAlg
    \/ LinearStep
    \/ BinaryStep
    \/ BubbleStep
    \/ MergeStep
    \/ Record
    \/ Report
    \/ EditExpr
    \/ Estimate

Spec == Init /\ [][Next]_vars

\* a started script run is executed to its end: the interpreter runs the
\* script synchronously, and nothing cuts the simulation loop
FairSpec == Spec /\ WF_vars(Step)

\* the engine's blocks applied to the argument values of the contract
NextContract ==
    \/ SelectPage
    \/ SetC1
    \/ SetC2
    \/ ComposeTens
    \/ SetContractInputs
    \/ ClickRun
    \/ StartAlg
    \/ LinearStep
    \/ BinaryStep
    \/ BubbleStep
    \/ MergeStep
    \/ Record
    \/ Report
    \/ EditExpr
    \/ Estimate

ContractSpec == Init /\ [][NextContract]_vars

-----------------------------------------------------------------------------
(* Claims *)

\* an algorithm's branch has just finished: total holds its operation count
Finished(a) == pc = "record" /\ alg = a

\* C1: for every positive size n the Bubble branch ends with total = n^2
\* (250000 for n = 500).
C1_BubbleCountIsSquare ==
    (Finished("Bubble") /\ size >= 1) => total = size * size

\* C2: for every positive size n the Merge branch ends with
\* total = round(n * log2(n)), rounded to nearest (9966 for n = 1000).
C2_MergeCountIsRounded ==
    (Finished("Merge") /\ size >= 1) => total = RoundNLog2(size)

\* C3: for every positive size n the Binary branch ends with
\* total = floor(log2(n)), the k with 2^k <= n < 2^(k+1).
C3_BinaryCountIsFloorLog2 ==
    (Finished("Binary") /\ size >= 1) =>
        /\ Pow2(total) <= size
        /\ size < Pow2(total + 1)

C3_Witness == Finished("Binary") /\ size = 1024 /\ total = 10

C5_Outcome ==
    (page = "Theta" /\ msg # "none") =>
        /\ c1 < c2  => (msg = "success" /\ traces = AllTraces)
        /\ c1 >= c2 => (msg = "error" /\ traces = NoTraces /\ nArr = <<>>)

C5_NoSwap ==
    (page = "Theta" /\ page' = "Theta") =>
        \/ c1' = c1
        \/ c2' = c2
        \/ (c1' = C1Default /\ c2' = C2Default)

C5_BoundOrderingGuard == []C5_Outcome /\ [][C5_NoSwap]_vars

C5_Witness == page = "Theta" /\ c1 > c2 /\ msg = "error" /\ traces = NoTraces

\* lower[m] <= f(n[m]) <= upper[m] at every sample of the drawn domain
Bracketed ==
    \A m \in DOMAIN nArr :
        Leq(LowerAt(m), TargetAt(m)) /\ Leq(TargetAt(m), UpperAt(m))

\* C6: for c1 = 0.5, c2 = 2.0 over the domain 10, 20, ..., 100 every sample
\* has c1*n^2 <= n^2 + 2n + 1 <= c2*n^2.
C6_TensBracketed ==
    (page = "Theta" /\ c1 = 5 /\ c2 = 20 /\ nArr = TensDomain) => Bracketed

C6_Witness ==
    page = "Theta" /\ c1 = 5 /\ c2 = 20 /\ nArr = TensDomain /\ msg = "success"

\* total of algorithm a over size m when it is the only algorithm of a first
\* script run
CountAlone(a, m) ==
    CASE a = "Linear" -> RangeLen(m)
      [] a = "Binary" -> IF m >= 1 THEN FloorLog2(m) ELSE 0
      [] a = "Bubble" -> IF m >= 1 THEN m * m * (m - 1) ELSE 0
      [] a = "Merge"  -> MergeRange(m)

\* C7: the count an algorithm ends with is the count of that algorithm run
\* alone on the same size, whatever the batch, the selection order, the
\* position in the batch and the number of earlier runs.
C7_CountBatchIndependent ==
    pc = "record" => total = CountAlone(alg, size)

C7_Witness ==
    /\ Finished("Bubble") /\ idx = 3 /\ size = 3 /\ total = 18
    /\ selected_algorithms[1] = "Merge" /\ selected_algorithms[2] = "Linear"

\* nesting depth of the for-loops of a block, by indentation
Encloses(b, q, m) ==
    /\ q < m
    /\ b[q].kind = "for"
    /\ \A r \in (q + 1)..m : b[r].indent > b[q].indent

LoopDepth(b) ==
    LET depth(m) == 1 + Cardinality({q \in DOMAIN b : Encloses(b, q, m)})
        loops == {m \in DOMAIN b : b[m].kind = "for"}
    IN  IF loops = {} THEN 0
        ELSE CHOOSE d \in {depth(m) : m \in loops} :
                 \A m \in loops : depth(m) <= d

Classify(b) ==
    CASE LoopDepth(b) = 0 -> "O(1)"
      [] LoopDepth(b) = 1 -> "O(n)"
      [] LoopDepth(b) = 2 -> "O(n^2)"

\* C8: the estimate follows the block: a single loop is Linear, two nested
\* loops are Quadratic, an empty block is Constant.
C8_EstimateFollowsStructure ==
    (page = "Calculator" /\ result # "") => result = Classify(expr)

Running == pc \notin {"idle", "done", "error"}

\* loop iterations the current branch has made
IterationsDone ==
    CASE pc \in {"linear", "merge"} -> k
      [] pc = "bubble" -> i * size + j
      [] pc = "binary" -> total
      [] OTHER -> 0

C9_Ceiling == Running => IterationsDone <= size * size

C9_ValDecreases ==
    /\ (pc = "binary" /\ pc' = "binary") => val' < val
    /\ (pc = "binary" /\ pc' = "record") => val <= 1

C9_Completed ==
    /\ pc = "done"
    /\ \A a \in Range(selected_algorithms) : a \in DOMAIN runtimes
    /\ Len(messages) = Len(selected_algorithms)

\* C9: every simulation run over the slider's sizes terminates: each loop
\* makes at most size^2 iterations, val strictly decreases in the Binary
\* loop until it is <= 1, and the run ends with a runtime recorded for
\* every selected algorithm.
C9_RunTerminates ==
    /\ []C9_Ceiling
    /\ [][C9_ValDecreases]_vars
    /\ (Running ~> C9_Completed)

C9_Witness ==
    /\ C9_Completed
    /\ size = SliderMin
    /\ selected_algorithms = <<"Bubble", "Binary">>

\* C10: whenever the Theta page reports success, c1*n^2 <= f(n) <= c2*n^2
\* holds at every sample of the plotted domain, n = 1 included.
C10_SuccessMeansBracketed ==
    (page = "Theta" /\ msg = "success") => Bracketed

====
